---- MODULE Spec2Model ----
(***************************************************************************)
(* Model of the generation orchestration of the Violet Evergarden photo    *)
(* app: geminiService.ts (retrying invoker, response interpreters,         *)
(* single-image generator, remix call), App.tsx (batch scheduler,          *)
(* regenerate, reset, upload, remix save) and RemixModal.tsx (remix        *)
(* session).                                                               *)
(*                                                                         *)
(* JavaScript runs one macrotask at a time: a handler, or the continuation *)
(* of an await when a network call settles or a timer fires, runs together *)
(* with all the promise continuations it triggers before any other event   *)
(* is handled.  Each action below is one such macrotask.                   *)
(*                                                                         *)
(* A JavaScript string is modelled as a sequence of tokens; template       *)
(* literals concatenate, String.includes and the data-URL regular          *)
(* expression inspect the tokens.                                          *)
(***************************************************************************)
EXTENDS Integers, Sequences, FiniteSets, TLC

\* undefined, null and the empty string: the code only ever tests a string for
\* truthiness, so the three are one value
NoString == <<>>

\* String.prototype.includes, for a needle that is one token
Includes(s, tok) == \E i \in 1..Len(s) : s[i] = tok

\* the tokens that consist of word characters only (the regex class \w)
WordTokens == {"image", "text", "png", "jpeg", "svg", "xml", "plain"}

\* ------------------------------------------------------------------------
\* Bounds of the model
\* ------------------------------------------------------------------------

\* number of scenes of the scene list that the model keeps
NumScenes == 3

\* regenerations (handleRegenerateScene past its guards) in flight at the
\* same time
MaxRegens == 1

\* calls that the service answers without an image in one run of the app
MaxFaults == 1

\* instructions sent to the remix modal in one run of the app
MaxTurns == 2

\* content parts of a response handed to processMultipartGeminiResponse
MaxParts == 4

\* ------------------------------------------------------------------------
\* Data: scenes, prompts, images
\* ------------------------------------------------------------------------

AllScenes ==
  << "As an Auto Memory Doll", "In a Leiden Street Scene", "At a Grand Ball",
     "In a Countryside Landscape", "Writing a Letter", "Under a Starry Sky" >>

\* const SCENES, cut to its first NumScenes names
SCENES == SubSeq(AllScenes, 1, NumScenes)

SceneSet == {SCENES[i] : i \in 1..NumScenes}

\* the prompt template of processScene / handleRegenerateScene
PrimaryPrompt(scene) ==
  << "Reimagine the person in this photo in the artistic style of the anime 'Violet Evergarden'. The scene is: \"",
     scene,
     "\". Capture the painterly, emotional aesthetic of the anime with detailed clothing and background appropriate for the scene. The output must be a high-quality, artistic image." >>

\* faulty variant: a fallback prompt that does not name the scene
getFallbackPrompt_noScene(scene) ==
  << "Create an artistic image of the person in this photo. The style should be inspired by the anime 'Violet Evergarden'. The image should have a painterly, emotional feel, with authentic-looking clothing and background. Ensure the final image is high quality and artistic." >>

getFallbackPrompt(scene) ==
  << "Create an artistic image of the person in this photo. The style should be inspired by the anime 'Violet Evergarden', and the setting is \"",
     scene,
     "\". The image should have a painterly, emotional feel, with authentic-looking clothing and background. Ensure the final image is high quality and artistic." >>

\* `data:${mimeType};base64,${data}`
DataUrl(mimeType, data) == <<"data:">> \o mimeType \o <<";base64,">> \o data

\* faulty variant: the pattern accepts every media type
MatchesDataUrl_anyType(url) ==
  /\ Len(url) >= 5
  /\ url[1] = "data:"
  /\ url[3] = "/"
  /\ url[5] = ";base64,"

\* imageDataUrl.match(/^data:(image\/\w+);base64,(.*)$/): does it match?
MatchesDataUrl(url) ==
  /\ Len(url) >= 5
  /\ url[1] = "data:"
  /\ url[2] = "image"
  /\ url[3] = "/"
  /\ url[4] \in WordTokens
  /\ url[5] = ";base64,"
  /\ \A i \in 6..Len(url) : url[i] # "\n"

\* faulty variant: the subtype alone is taken as the mimeType
ImagePartOf_subtype(url) ==
  [mimeType |-> SubSeq(url, 4, 4), data |-> SubSeq(url, 6, Len(url))]

\* const [, mimeType, base64Data] = match;  imagePart = {inlineData: ...}
ImagePartOf(url) ==
  [mimeType |-> SubSeq(url, 2, 4), data |-> SubSeq(url, 6, Len(url))]

MimePng == <<"image", "/", "png">>
MimeJpeg == <<"image", "/", "jpeg">>
MimePlain == <<"text", "/", "plain">>
MimeOctet == <<"application", "/", "octet-stream">>
MimeSvg == <<"image", "/", "svg+xml">>

\* what FileReader.readAsDataURL hands to handleImageUpload: a photo, and a
\* file that is no image
PhotoA == DataUrl(MimeJpeg, <<"PHOTO-A">>)
PhotoB == DataUrl(MimePng, <<"PHOTO-B">>)
NotAnImage == DataUrl(MimePlain, <<"NOTES">>)
Uploads == {PhotoA, NotAnImage}

\* ------------------------------------------------------------------------
\* The remote service: what one generateContent call can settle with
\* ------------------------------------------------------------------------

\* a content part: inline image data and/or text
NoInline == [present |-> FALSE]
ImgPart(mimeType, data) ==
  [inlineData |-> [present |-> TRUE, mimeType |-> mimeType, data |-> data],
   text |-> NoString]
TxtPart(t) == [inlineData |-> NoInline, text |-> t]

\* a GenerateContentResponse: candidates?.[0]?.content?.parts (hasParts is
\* FALSE when that chain is undefined) and the top-level text
RImage ==
  [hasParts |-> TRUE, parts |-> <<ImgPart(MimePng, <<"IMG-1">>)>>, text |-> NoString]
RTextThenImages ==
  [hasParts |-> TRUE,
   parts |-> << TxtPart(<<"Here you go">>), ImgPart(MimePng, <<"IMG-2">>),
                ImgPart(MimeJpeg, <<"IMG-3">>) >>,
   text |-> <<"Here you go">>]
RRefusal ==
  [hasParts |-> TRUE, parts |-> <<TxtPart(<<"I cannot do that">>)>>,
   text |-> <<"I cannot do that">>]
RNoParts == [hasParts |-> FALSE, parts |-> <<>>, text |-> NoString]
RRemixed ==
  [hasParts |-> TRUE, parts |-> <<ImgPart(MimePng, <<"IMG-R">>)>>, text |-> NoString]
\* inline data that the service labels with a type that is no image type
ROctet ==
  [hasParts |-> TRUE, parts |-> <<ImgPart(MimeOctet, <<"IMG-O">>)>>, text |-> NoString]
\* parts without content, the refusal in the top-level text only
RTopLevelText ==
  [hasParts |-> TRUE, parts |-> <<TxtPart(NoString)>>, text |-> <<"I can't help with that">>]
\* parts without content and no top-level text
REmpty == [hasParts |-> TRUE, parts |-> <<TxtPart(NoString)>>, text |-> NoString]

Responses == {RImage, RTextThenImages, RRefusal, RNoParts}

\* messages of the errors a generateContent call can reject with
ErrInternal == <<"{\"error\":{", "\"code\":500", ",\"status\":\"", "INTERNAL", "\"}}">>
ErrInternalStatus == <<"got status: ", "INTERNAL", ". An internal error has occurred">>
ErrQuota == <<"{\"error\":{", "\"code\":429", ",\"status\":\"", "RESOURCE_EXHAUSTED", "\"}}">>
ErrNetwork == <<"Failed to fetch">>

ServiceErrors == {ErrInternal, ErrInternalStatus, ErrQuota, ErrNetwork}

\* ------------------------------------------------------------------------
\* geminiService.ts: response interpreter of the single-image flow
\* ------------------------------------------------------------------------

NoImageMarker == "The AI model responded with text instead of an image"

Returned(v) == [kind |-> "return", value |-> v]
Thrown(m) == [kind |-> "throw", message |-> m]

\* parts?.find(part => part.inlineData): index of the first inline image, 0 if none
FindInline(parts) ==
  LET hits == {i \in 1..Len(parts) : parts[i].inlineData.present}
  IN IF hits = {} THEN 0 ELSE CHOOSE i \in hits : \A j \in hits : i <= j

HasInlineImage(response) == FindInline(response.parts) # 0

\* faulty variant: a response without parts is an invalid response
processGeminiResponse_strict(response) ==
  LET i == FindInline(response.parts)
  IN IF ~response.hasParts
       THEN Thrown(<<"Invalid response format from AI model.">>)
       ELSE IF i # 0
         THEN Returned(DataUrl(response.parts[i].inlineData.mimeType,
                               response.parts[i].inlineData.data))
         ELSE Thrown(<<NoImageMarker, ": \"">>
                     \o (IF response.text = NoString
                           THEN <<"No text response received.">>
                           ELSE response.text)
                     \o <<"\"">>)

processGeminiResponse(response) ==
  LET i == FindInline(response.parts)
  IN IF i # 0
       THEN Returned(DataUrl(response.parts[i].inlineData.mimeType,
                             response.parts[i].inlineData.data))
       ELSE Thrown(<<NoImageMarker, ": \"">>
                   \o (IF response.text = NoString
                         THEN <<"No text response received.">>
                         ELSE response.text)
                   \o <<"\"">>)


\* ------------------------------------------------------------------------
\* geminiService.ts: response interpreter of the remix flow, and remixImage
\* ------------------------------------------------------------------------

\* faulty variant: the first text is kept, not the last
RECURSIVE ScanParts_firstText(_, _)
ScanParts_firstText(parts, n) ==
  IF n = 0 THEN [imageUrl |-> NoString, text |-> NoString]
  ELSE LET acc == ScanParts_firstText(parts, n - 1)
           part == parts[n]
       IN IF part.inlineData.present
            THEN [acc EXCEPT !.imageUrl = DataUrl(part.inlineData.mimeType,
                                                  part.inlineData.data)]
            ELSE IF part.text # NoString /\ acc.text = NoString
                   THEN [acc EXCEPT !.text = part.text]
                   ELSE acc

\* faulty variant: the first inline image is kept, not the last
RECURSIVE ScanParts_firstImage(_, _)
ScanParts_firstImage(parts, n) ==
  IF n = 0 THEN [imageUrl |-> NoString, text |-> NoString]
  ELSE LET acc == ScanParts_firstImage(parts, n - 1)
           part == parts[n]
       IN IF part.inlineData.present
            THEN IF acc.imageUrl # NoString THEN acc
                 ELSE [acc EXCEPT !.imageUrl = DataUrl(part.inlineData.mimeType,
                                                       part.inlineData.data)]
            ELSE IF part.text # NoString
                   THEN [acc EXCEPT !.text = part.text]
                   ELSE acc

\* the for loop over parts: imageUrl and text after the first n parts
RECURSIVE ScanParts(_, _)
ScanParts(parts, n) ==
  IF n = 0 THEN [imageUrl |-> NoString, text |-> NoString]
  ELSE LET acc == ScanParts(parts, n - 1)
           part == parts[n]
       IN IF part.inlineData.present
            THEN [acc EXCEPT !.imageUrl = DataUrl(part.inlineData.mimeType,
                                                  part.inlineData.data)]
            ELSE IF part.text # NoString
                   THEN [acc EXCEPT !.text = part.text]
                   ELSE acc

\* faulty variant: the top-level text is not looked at
processMultipartGeminiResponse_partsOnly(response) ==
  IF ~response.hasParts
    THEN Thrown(<<"Invalid response format from AI model.">>)
    ELSE LET found == ScanParts(response.parts, Len(response.parts))
         IN IF found.imageUrl = NoString /\ found.text = NoString
              THEN Thrown(<<"The AI model did not return an image or text.">>)
              ELSE Returned(found)

\* faulty variant: a response without parts is read as one with no parts in
\* its list
processMultipartGeminiResponse_lenient(response) ==
  LET found == ScanParts(response.parts, Len(response.parts))
  IN IF found.imageUrl = NoString /\ found.text = NoString
       THEN IF response.text # NoString
              THEN Returned([imageUrl |-> NoString, text |-> response.text])
              ELSE Thrown(<<"The AI model did not return an image or text.">>)
       ELSE Returned(found)

processMultipartGeminiResponse(response) ==
  IF ~response.hasParts
    THEN Thrown(<<"Invalid response format from AI model.">>)
    ELSE LET found == ScanParts(response.parts, Len(response.parts))
         IN IF found.imageUrl = NoString /\ found.text = NoString
              THEN IF response.text # NoString
                     THEN Returned([imageUrl |-> NoString, text |-> response.text])
                     ELSE Thrown(<<"The AI model did not return an image or text.">>)
              ELSE Returned(found)

RemixFailed(message) ==
  Thrown(<<"The AI model failed to remix the image. Details: ">> \o message)

\* remixImage up to its await: the format check
remixImage(imageDataUrl, prompt) ==
  IF ~MatchesDataUrl(imageDataUrl)
    THEN Thrown(<<"Invalid image data URL format for remix.">>)
    ELSE [kind |-> "await",
          request |-> [imagePart |-> ImagePartOf(imageDataUrl), textPart |-> prompt]]

\* remixImage after its await: generateContent resolved, or rejected
remixImage_resolved(response) ==
  LET r == processMultipartGeminiResponse(response)
  IN IF r.kind = "return" THEN r ELSE RemixFailed(r.message)

\* faulty variant: an internal error is followed by a backoff wait, as in
\* callGeminiWithRetry
remixImage_rejected_backoff(message) ==
  IF message \in {ErrInternal, ErrInternalStatus}
    THEN [kind |-> "sleep", delay |-> 1000]
    ELSE RemixFailed(message)

remixImage_rejected(message) == RemixFailed(message)

\* ------------------------------------------------------------------------
\* geminiService.ts: the retrying invoker and the single-image generator
\*
\* One invocation of generateStyledImage is a record:
\*   scene, imagePart  the arguments (imagePart parsed from the data URL)
\*   stage             "original" (first try block) or "fallback" (second)
\*   textPart          the prompt callGeminiWithRetry was called with
\*   attempt           the loop variable of callGeminiWithRetry
\*   pc                "call": awaiting generateContent; "sleep": awaiting
\*                     the backoff timer; "end": settled
\*   calls, replies, delays   what it has done so far: every generateContent
\*                     call (its prompt), what each call settled with, and
\*                     every backoff delay started, each with the stage and
\*                     the attempt it belongs to
\* A step of it yields [kind |-> "await" | "return" | "throw", job, ...].
\* ------------------------------------------------------------------------

\* faulty variant: one attempt more
maxRetries_four == 3 + 1

maxRetries == 3
initialDelay == 1000

\* faulty variant: every failure counts as an internal error
isInternalError_any(message) == TRUE

isInternalError(message) ==
  Includes(message, "\"code\":500") \/ Includes(message, "INTERNAL")

\* faulty variant: a delay that grows linearly
RetryDelay_linear(attempt) == initialDelay * (attempt + 1)

\* initialDelay * Math.pow(2, attempt - 1)
RetryDelay(attempt) == initialDelay * 2 ^ (attempt - 1)

\* faulty variant: every failure counts as a missing image
isNoImageError_any(message) == TRUE

isNoImageError(message) == Includes(message, NoImageMarker)

Await(job) == [kind |-> "await", job |-> job]
Return(job, v) == [kind |-> "return", job |-> [job EXCEPT !.pc = "end"], value |-> v]
Throw(job, m) == [kind |-> "throw", job |-> [job EXCEPT !.pc = "end"], message |-> m]

\* callGeminiWithRetry(imagePart, textPart) up to its first await
StartCall(job, stage, textPart) ==
  Await([job EXCEPT !.stage = stage, !.textPart = textPart, !.attempt = 1,
                    !.pc = "call",
                    !.calls = Append(@, [stage |-> stage, attempt |-> 1,
                                         text |-> textPart])])

\* faulty variant: the fallback's error is rethrown as it is
CatchFallback_bare(job, message) == Throw(job, message)

\* the catch block of the fallback attempt
CatchFallback(job, message) ==
  Throw(job, <<"The AI model failed with both original and fallback prompts. Last error: ">>
             \o message)

\* the catch block of the first attempt
CatchOriginal(job, message) ==
  IF isNoImageError(message)
    THEN StartCall(job, "fallback", getFallbackPrompt(job.scene))
    ELSE Throw(job, <<"The AI model failed to generate an image. Details: ">> \o message)

\* faulty variant: the fallback attempt is caught like the first one
Catch_likeOriginal(job, message) == CatchOriginal(job, message)

\* the two try blocks of generateStyledImage: which catch block gets the error
Catch(job, message) ==
  IF job.stage = "original" THEN CatchOriginal(job, message)
                            ELSE CatchFallback(job, message)

\* generateStyledImage up to its first await
generateStyledImage(imageDataUrl, prompt, scene) ==
  LET job == [scene |-> scene,
              imagePart |-> IF MatchesDataUrl(imageDataUrl)
                              THEN ImagePartOf(imageDataUrl)
                              ELSE [mimeType |-> <<>>, data |-> <<>>],
              stage |-> "original", textPart |-> prompt, attempt |-> 1,
              pc |-> "end", calls |-> <<>>, replies |-> <<>>, delays |-> <<>>]
  IN IF ~MatchesDataUrl(imageDataUrl)
       THEN Throw(job, <<"Invalid image data URL format. Expected 'data:image/...;base64,...'">>)
       ELSE StartCall(job, "original", prompt)

\* generateContent resolved with a response: callGeminiWithRetry returns it
\* and processGeminiResponse interprets it
OnResponse(job, response) ==
  LET j == [job EXCEPT !.replies = Append(@, [stage |-> job.stage, attempt |-> job.attempt,
                                              ok |-> TRUE, response |-> response])]
      r == processGeminiResponse(response)
  IN IF r.kind = "return" THEN Return(j, r.value) ELSE Catch(j, r.message)

\* generateContent rejected: the catch block of callGeminiWithRetry
OnError(job, message) ==
  LET j == [job EXCEPT !.replies = Append(@, [stage |-> job.stage, attempt |-> job.attempt,
                                              ok |-> FALSE, message |-> message])]
  IN IF isInternalError(message) /\ job.attempt < maxRetries
       THEN Await([j EXCEPT !.pc = "sleep",
                            !.delays = Append(@, [stage |-> job.stage, attempt |-> job.attempt,
                                                  ms |-> RetryDelay(job.attempt)])])
       ELSE Catch(j, message)

\* faulty variant: the wait never ends
OnTimer_stuck(job) == Await(job)

\* the backoff timer fired: `continue`, the next attempt's generateContent call
OnTimer(job) ==
  Await([job EXCEPT !.attempt = @ + 1, !.pc = "call",
                    !.calls = Append(@, [stage |-> job.stage, attempt |-> job.attempt + 1,
                                         text |-> job.textPart])])

\* ------------------------------------------------------------------------
\* State
\* ------------------------------------------------------------------------

VARIABLES
  \* App.tsx, useState
  uploadedImage,    \* data URL of the photo, NoString for null
  generatedImages,  \* scene -> [status, url, error], on the scenes it has a key for
  isLoading,
  appState,         \* "idle", "image-uploaded", "generating", "results-shown"
  remixModalState,  \* [isOpen, scene, imageUrl]
  \* RemixModal.tsx, useState
  currentImage,
  chatHistory,      \* sequence of [type, text, imageUrl]
  isGenerating,
  \* in flight
  turns,            \* the handleSend calls that reached remixImage's service
                    \* call: the closure of each (newHistory), the request,
                    \* and what the call settled with once it has
  batches,          \* the handleGenerateClick calls that have not returned: the
                    \* closure of each (image, scenesQueue), the workers still
                    \* in their loop, and the scenes popped so far
  jobs,             \* the generateStyledImage invocations awaiting the service or a
                    \* timer: <<b, w>> is worker w of batch b, <<0, n>> a
                    \* handleRegenerateScene
  faults,           \* calls the service answered without an image so far
  sends,            \* handleSend calls so far
  \* a lone invocation, for SpecGen
  gen               \* one generateStyledImage invocation run on its own: its last
                    \* step; or one remixImage invocation run on its own; or
                    \* one response, and what processMultipartGeminiResponse
                    \* makes of it; or one inline part, the image produced
                    \* from it, and what remixImage does with that image

appVars == <<uploadedImage, generatedImages, isLoading, appState>>
modalVars == <<remixModalState, currentImage, chatHistory, isGenerating, turns>>
vars == <<uploadedImage, generatedImages, isLoading, appState, remixModalState,
          currentImage, chatHistory, isGenerating, turns, batches, jobs,
          faults, sends, gen>>

\* ------------------------------------------------------------------------
\* SpecGen: one invocation of generateStyledImage, for every input and
\* every behaviour of the service
\* ------------------------------------------------------------------------

\* the arguments generateStyledImage is called with
GenImages == {PhotoA, PhotoB, NotAnImage}
GenPrompts(scene) == {PrimaryPrompt(scene), <<"Draw this person as a character of the anime.">>}

ModalClosed == [isOpen |-> FALSE, scene |-> NoString, imageUrl |-> NoString]

\* App's and RemixModal's state after construction
AppInit ==
  /\ uploadedImage = NoString
  /\ generatedImages = <<>>
  /\ isLoading = FALSE
  /\ appState = "idle"
  /\ remixModalState = ModalClosed
  /\ currentImage = NoString
  /\ chatHistory = <<>>
  /\ isGenerating = FALSE
  /\ turns = <<>>
  /\ batches = <<>>
  /\ jobs = <<>>
  /\ faults = 0
  /\ sends = 0

GenInit ==
  /\ AppInit
  /\ \E url \in GenImages, scene \in SceneSet :
       \E prompt \in GenPrompts(scene) :
          gen = generateStyledImage(url, prompt, scene)

GenResolve ==
  /\ gen.kind = "await" /\ gen.job.pc = "call"
  /\ \E response \in Responses : gen' = OnResponse(gen.job, response)
  /\ UNCHANGED <<appVars, modalVars, batches, jobs, faults, sends>>

GenReject ==
  /\ gen.kind = "await" /\ gen.job.pc = "call"
  /\ \E message \in ServiceErrors : gen' = OnError(gen.job, message)
  /\ UNCHANGED <<appVars, modalVars, batches, jobs, faults, sends>>

GenTimer ==
  /\ gen.kind = "await" /\ gen.job.pc = "sleep"
  /\ gen' = OnTimer(gen.job)
  /\ UNCHANGED <<appVars, modalVars, batches, jobs, faults, sends>>

GenNext == GenResolve \/ GenReject \/ GenTimer

SpecGen == GenInit /\ [][GenNext]_vars

\* ------------------------------------------------------------------------
\* SpecService: one invocation of generateStyledImage or of remixImage, for
\* every input and every behaviour of the service
\* ------------------------------------------------------------------------

\* one invocation of remixImage: what it has come to (awaiting the service,
\* returned, thrown) and what the service has replied
LoneRemixInit ==
  /\ AppInit
  /\ \E url \in GenImages, prompt \in {<<"Make it a sunset scene">>} :
       gen = [kind |-> "remix", step |-> remixImage(url, prompt), replies |-> <<>>]

LoneRemixResolve ==
  /\ gen.kind = "remix" /\ gen.step.kind = "await"
  /\ \E response \in Responses \cup {RTopLevelText, REmpty} :
       gen' = [gen EXCEPT !.step = remixImage_resolved(response),
                          !.replies = Append(@, [ok |-> TRUE, response |-> response])]
  /\ UNCHANGED <<appVars, modalVars, batches, jobs, faults, sends>>

LoneRemixReject ==
  /\ gen.kind = "remix" /\ gen.step.kind = "await"
  /\ \E message \in ServiceErrors :
       gen' = [gen EXCEPT !.step = remixImage_rejected(message),
                          !.replies = Append(@, [ok |-> FALSE, message |-> message])]
  /\ UNCHANGED <<appVars, modalVars, batches, jobs, faults, sends>>

ServiceInit == GenInit \/ LoneRemixInit

ServiceNext == GenResolve \/ GenReject \/ GenTimer \/ LoneRemixResolve \/ LoneRemixReject

SpecService == ServiceInit /\ [][ServiceNext]_vars

\* ------------------------------------------------------------------------
\* SpecFeedBack: an image produced from the service's inline data, handed
\* to remixImage
\* ------------------------------------------------------------------------

\* the mimeType and the data of the inline part the service returns
FedMimeTypes == {MimePng, MimeJpeg, MimeSvg, MimeOctet, MimePlain}
FedData == {<<"IMG-1">>, <<"IMG-2">>, <<"IMG-1", "\n", "IMG-2">>, NoString}

\* the response interpreter of generateStyledImage, and the one of remixImage
Producers == {"processGeminiResponse", "processMultipartGeminiResponse"}

FeedBackInit ==
  /\ AppInit
  /\ \E mimeType \in FedMimeTypes, data \in FedData, producer \in Producers :
       gen = [kind |-> "response", producer |-> producer,
              response |-> [hasParts |-> TRUE, parts |-> <<ImgPart(mimeType, data)>>,
                            text |-> NoString]]

\* the interpreter produces the image of the response
Produce ==
  /\ gen.kind = "response"
  /\ gen' = [kind |-> "produced", producer |-> gen.producer, response |-> gen.response,
             url |-> IF gen.producer = "processGeminiResponse"
                       THEN processGeminiResponse(gen.response).value
                       ELSE processMultipartGeminiResponse(gen.response).value.imageUrl]
  /\ UNCHANGED <<appVars, modalVars, batches, jobs, faults, sends>>

\* the produced image is the input of a remix
FeedBack ==
  /\ gen.kind = "produced"
  /\ \E prompt \in {<<"Make it a sunset scene">>} :
       gen' = [kind |-> "fed", producer |-> gen.producer, response |-> gen.response,
               url |-> gen.url, step |-> remixImage(gen.url, prompt)]
  /\ UNCHANGED <<appVars, modalVars, batches, jobs, faults, sends>>

FeedBackNext == Produce \/ FeedBack

SpecFeedBack == FeedBackInit /\ [][FeedBackNext]_vars

\* ------------------------------------------------------------------------
\* SpecInterpret: processMultipartGeminiResponse on every response of up to
\* MaxParts parts
\* ------------------------------------------------------------------------

\* a part that holds inline data and text at once
BothPart(mimeType, data, t) ==
  [inlineData |-> [present |-> TRUE, mimeType |-> mimeType, data |-> data],
   text |-> t]

\* the parts a response is made of
PartChoices ==
  { ImgPart(MimePng, <<"IMG-2">>), ImgPart(MimeJpeg, <<"IMG-3">>),
    TxtPart(<<"Here you go">>), TxtPart(<<"I cannot do that">>), TxtPart(NoString),
    BothPart(MimePng, <<"IMG-4">>, <<"A caption">>) }

SeqsUpTo(S, n) == UNION {[1..k -> S] : k \in 0..n}

\* responses with and without parts, with and without top-level text
InterpretInputs ==
  {[hasParts |-> TRUE, parts |-> parts, text |-> text] :
      parts \in SeqsUpTo(PartChoices, MaxParts),
      text \in {NoString, <<"I can't help with that">>}}
  \cup {[hasParts |-> FALSE, parts |-> <<>>, text |-> text] :
            text \in {NoString, <<"I can't help with that">>}}

InterpretInit ==
  /\ AppInit
  /\ \E response \in InterpretInputs : gen = [kind |-> "response", response |-> response]

Interpret ==
  /\ gen.kind = "response"
  /\ gen' = [kind |-> "interpreted", response |-> gen.response,
             result |-> processMultipartGeminiResponse(gen.response)]
  /\ UNCHANGED <<appVars, modalVars, batches, jobs, faults, sends>>

SpecInterpret == InterpretInit /\ [][Interpret]_vars

\* ------------------------------------------------------------------------
\* App.tsx
\* ------------------------------------------------------------------------

\* faulty variant: three workers
concurrencyLimit_three == 2 + 1

concurrencyLimit == 2

Pending == [status |-> "pending", url |-> NoString, error |-> NoString]

\* faulty variant: the status is not set to done
Done_stillPending(url) == [status |-> "pending", url |-> url, error |-> NoString]

Done(url) == [status |-> "done", url |-> url, error |-> NoString]
Failed(message) == [status |-> "error", url |-> NoString, error |-> message]

Has(images, scene) == scene \in DOMAIN images

\* faulty variant: the update replaces every entry
SetEntry_all(images, scene, entry) ==
  [s \in DOMAIN images \cup {scene} |-> entry]

\* {...prev, [scene]: entry}
SetEntry(images, scene, entry) ==
  [s \in DOMAIN images \cup {scene} |-> IF s = scene THEN entry ELSE images[s]]

\* the least positive number not in ids
FreeId(ids) == CHOOSE n \in 1..(Cardinality(ids) + 1) : n \notin ids

RegenIds == {id \in DOMAIN jobs : id[1] = 0}

\* an invocation in flight, without the record of what it has done
Running(job) == [job EXCEPT !.calls = <<>>, !.replies = <<>>, !.delays = <<>>]

Put(f, k, v) == [x \in DOMAIN f \cup {k} |-> IF x = k THEN v ELSE f[x]]
Drop(f, k) == [x \in DOMAIN f \ {k} |-> f[x]]

\* faulty variant: the result is not written
Settle_lost(images, scene, r) == images

\* the try/catch around `await generateStyledImage(...)` of processScene and
\* of handleRegenerateScene, once the invocation has settled with r
Settle(images, scene, r) ==
  SetEntry(images, scene,
           IF r.kind = "return" THEN Done(r.value) ELSE Failed(r.message))

\* faulty variant: scenesQueue.pop()
Shift_pop(queue) ==
  [scene |-> queue[Len(queue)], rest |-> SubSeq(queue, 1, Len(queue) - 1)]

\* scenesQueue.shift(): the scene taken and the queue left
Shift(queue) == [scene |-> Head(queue), rest |-> Tail(queue)]

\* The worker loops of one batch.  st holds the closure of handleGenerateClick
\* (image, queue), the state the workers touch (images, jobs) and what the
\* workers have done (running, started); ws are the workers that are at the
\* head of their while loop, in the order in which they continue.  A worker
\* whose generateStyledImage call awaits the service leaves the list; one
\* whose call throws before any await goes round its loop again after the
\* other workers of the list have moved.
RECURSIVE Drain(_, _, _)
Drain(st, b, ws) ==
  IF ws = <<>> THEN st
  ELSE LET w == Head(ws) IN
       IF st.queue = <<>>
         THEN Drain([st EXCEPT !.running = @ \ {w}], b, Tail(ws))
         ELSE LET scene == Shift(st.queue).scene
                  r == generateStyledImage(st.image, PrimaryPrompt(scene), scene)
                  popped == [st EXCEPT !.queue = Shift(@).rest,
                                       !.started = Append(@, scene)]
              IN IF r.kind = "await"
                   THEN Drain([popped EXCEPT !.jobs = Put(@, <<b, w>>, Running(r.job))],
                              b, Tail(ws))
                   ELSE Drain([popped EXCEPT !.images = Settle(@, scene, r)],
                              b, Tail(ws) \o <<w>>)

\* The file input is rendered in the idle view only.  The FileReader is the
\* file-upload collaborator: it is taken to hand the data URL to onloadend
\* before the user does anything else.
handleImageUpload ==
  /\ appState = "idle"
  /\ ~remixModalState.isOpen
  /\ \E url \in Uploads : uploadedImage' = url
  /\ appState' = "image-uploaded"
  /\ generatedImages' = <<>>
  /\ UNCHANGED <<isLoading, modalVars, batches, jobs, faults, sends, gen>>

\* the state after a step of batch b that left its loops in st
BatchStep(b, st) ==
  /\ generatedImages' = st.images
  /\ jobs' = st.jobs
  /\ IF st.running = {}
       THEN \* await Promise.all(workers) returns
            /\ batches' = Drop(batches, b)
            /\ isLoading' = FALSE
            /\ appState' = "results-shown"
       ELSE /\ batches' = Put(batches, b, [image |-> st.image, queue |-> st.queue,
                                           running |-> st.running,
                                           started |-> st.started])
            /\ IF b \in DOMAIN batches
                 THEN UNCHANGED <<isLoading, appState>>
                 ELSE isLoading' = TRUE /\ appState' = "generating"

\* the Generate button is rendered in the image-uploaded view
handleGenerateClick ==
  /\ appState = "image-uploaded"
  /\ ~remixModalState.isOpen
  /\ uploadedImage # NoString
  /\ LET b == FreeId(DOMAIN batches)
         st == [image |-> uploadedImage,
                images |-> [scene \in SceneSet |-> Pending],
                queue |-> SCENES,
                jobs |-> jobs,
                running |-> 1..concurrencyLimit,
                started |-> <<>>]
     IN BatchStep(b, Drain(st, b, [w \in 1..concurrencyLimit |-> w]))
  /\ UNCHANGED <<uploadedImage, modalVars, faults, sends, gen>>

\* The cards, and with them onShake, are rendered in the generating and
\* results-shown views.  While the remix modal is open its overlay covers the
\* page, so the page's own controls are out of reach.
handleRegenerateScene ==
  /\ appState \in {"generating", "results-shown"}
  /\ ~remixModalState.isOpen
  /\ \E scene \in SceneSet :
       /\ uploadedImage # NoString
       /\ ~(Has(generatedImages, scene) /\ generatedImages[scene].status = "pending")
       /\ LET r == generateStyledImage(uploadedImage, PrimaryPrompt(scene), scene)
              pending == SetEntry(generatedImages, scene, Pending)
          IN IF r.kind = "await"
               THEN /\ Cardinality(RegenIds) < MaxRegens
                    /\ generatedImages' = pending
                    /\ jobs' = Put(jobs, <<0, FreeId({id[2] : id \in RegenIds})>>,
                                   Running(r.job))
               ELSE /\ generatedImages' = Settle(pending, scene, r)
                    /\ jobs' = jobs
  /\ UNCHANGED <<uploadedImage, isLoading, appState, modalVars, batches, faults, sends, gen>>

\* "Different Photo" (image-uploaded view) and "Start Over" (results-shown view)
handleReset ==
  /\ appState \in {"image-uploaded", "results-shown"}
  /\ ~remixModalState.isOpen
  /\ uploadedImage' = NoString
  /\ generatedImages' = <<>>
  /\ appState' = "idle"
  /\ UNCHANGED <<isLoading, modalVars, batches, jobs, faults, sends, gen>>

\* an awaited step of invocation id ended with r: the continuation that runs
AfterStep(id, r) ==
  IF r.kind = "await"
    THEN /\ jobs' = [jobs EXCEPT ![id] = Running(r.job)]
         /\ UNCHANGED <<appVars, batches>>
    ELSE IF id[1] = 0
      THEN \* handleRegenerateScene after its await
           /\ generatedImages' = Settle(generatedImages, jobs[id].scene, r)
           /\ jobs' = Drop(jobs, id)
           /\ UNCHANGED <<uploadedImage, isLoading, appState, batches>>
      ELSE \* processScene after its await, then the worker's loop
           LET b == id[1]
               st == [image |-> batches[b].image,
                      images |-> Settle(generatedImages, jobs[id].scene, r),
                      queue |-> batches[b].queue,
                      jobs |-> Drop(jobs, id),
                      running |-> batches[b].running,
                      started |-> batches[b].started]
           IN /\ BatchStep(b, Drain(st, b, <<id[2]>>))
              /\ UNCHANGED uploadedImage

\* what the service answers in a run of the app
AppResponses == {RImage, RRefusal}
AppErrors == {ErrInternal, ErrNetwork}

\* the service answers a generateContent call
ResolveOf(id, response) ==
  /\ jobs[id].pc = "call"
  /\ HasInlineImage(response) \/ faults < MaxFaults
  /\ faults' = IF HasInlineImage(response) THEN faults ELSE faults + 1
  /\ AfterStep(id, OnResponse(jobs[id], response))
  /\ UNCHANGED <<modalVars, sends, gen>>

JobResolve ==
  \E id \in DOMAIN jobs, response \in AppResponses : ResolveOf(id, response)

\* a generateContent call fails
RejectOf(id, message) ==
  /\ jobs[id].pc = "call"
  /\ faults < MaxFaults
  /\ faults' = faults + 1
  /\ AfterStep(id, OnError(jobs[id], message))
  /\ UNCHANGED <<modalVars, sends, gen>>

JobReject ==
  \E id \in DOMAIN jobs, message \in AppErrors : RejectOf(id, message)

\* a backoff timer fires
TimerOf(id) ==
  /\ jobs[id].pc = "sleep"
  /\ AfterStep(id, OnTimer(jobs[id]))
  /\ UNCHANGED <<modalVars, faults, sends, gen>>

JobTimer ==
  \E id \in DOMAIN jobs : TimerOf(id)

\* ------------------------------------------------------------------------
\* RemixModal.tsx, and the modal's handlers of App.tsx
\* ------------------------------------------------------------------------

\* what the user types as an instruction
Instructions == {<<"Make it a sunset scene">>}

\* what the service answers to a remix call in a run of the app
RemixResponses ==
  {RRemixed, ROctet, RTextThenImages, RRefusal, RTopLevelText, RNoParts, REmpty}
RemixErrors == {ErrNetwork}

\* a remix call that has not settled yet
NoReply == [kind |-> "none"]

UserMessage(text) == [type |-> "user", text |-> text, imageUrl |-> NoString]
BotMessage(text, imageUrl) == [type |-> "bot", text |-> text, imageUrl |-> imageUrl]

\* A card is rendered in the generating and results-shown views with its
\* scene as caption, the entry's url as imageUrl, and onRemix; it calls
\* onRemix(caption, imageUrl) for the image it shows.  Without an image url
\* the modal renders nothing.
CanRemix(scene) ==
  /\ appState \in {"generating", "results-shown"}
  /\ Has(generatedImages, scene)
  /\ generatedImages[scene].url # NoString

\* setRemixModalState, then useEffect([initialImageUrl]) of the modal
SetModal(state) ==
  /\ remixModalState' = state
  /\ IF state.imageUrl # remixModalState.imageUrl
       THEN currentImage' = state.imageUrl /\ chatHistory' = <<>>
       ELSE UNCHANGED <<currentImage, chatHistory>>

handleOpenRemixModal ==
  /\ ~remixModalState.isOpen
  /\ \E scene \in SceneSet :
       /\ CanRemix(scene)
       /\ SetModal([isOpen |-> TRUE, scene |-> scene,
                    imageUrl |-> generatedImages[scene].url])
  /\ UNCHANGED <<appVars, isGenerating, turns, batches, jobs, faults, sends, gen>>

handleCloseRemixModal ==
  /\ remixModalState.isOpen
  /\ SetModal(ModalClosed)
  /\ UNCHANGED <<appVars, isGenerating, turns, batches, jobs, faults, sends, gen>>

\* faulty variant: without the finally block after a failure
SendSettled_noFinally(newHistory, r) ==
  /\ IF r.kind = "throw"
       THEN /\ chatHistory' =
                 Append(newHistory,
                        BotMessage(<<"Sorry, I couldn't remix that. ">> \o r.message,
                                   NoString))
            /\ UNCHANGED currentImage
       ELSE /\ IF r.value.imageUrl # NoString
                 THEN currentImage' = r.value.imageUrl
                 ELSE UNCHANGED currentImage
            /\ IF r.value.imageUrl # NoString \/ r.value.text # NoString
                 THEN chatHistory' =
                        Append(newHistory, BotMessage(r.value.text, r.value.imageUrl))
                 ELSE chatHistory' = newHistory
  /\ isGenerating' = (r.kind = "throw")

\* the catch and finally blocks of handleSend, and its try block after the
\* await, for a remixImage that settled with r
SendSettled(newHistory, r) ==
  /\ IF r.kind = "throw"
       THEN /\ chatHistory' =
                 Append(newHistory,
                        BotMessage(<<"Sorry, I couldn't remix that. ">> \o r.message,
                                   NoString))
            /\ UNCHANGED currentImage
       ELSE /\ IF r.value.imageUrl # NoString
                 THEN currentImage' = r.value.imageUrl
                 ELSE UNCHANGED currentImage
            /\ IF r.value.imageUrl # NoString \/ r.value.text # NoString
                 THEN chatHistory' =
                        Append(newHistory, BotMessage(r.value.text, r.value.imageUrl))
                 ELSE chatHistory' = newHistory
  /\ isGenerating' = FALSE

\* faulty variant: a turn in progress does not stop handleSend
Ignored_whileGenerating(userInput) ==
  userInput = NoString \/ currentImage = NoString

\* faulty variant: a missing image does not stop handleSend
Ignored_withoutImage(userInput) == userInput = NoString \/ isGenerating

\* if (!userInput.trim() || isGenerating || !currentImage) return;
Ignored(userInput) ==
  userInput = NoString \/ isGenerating \/ currentImage = NoString

\* handleSend of the rendered modal, for what the user has typed
handleSend ==
  /\ remixModalState.isOpen
  /\ sends < MaxTurns
  /\ \E userInput \in Instructions :
       IF Ignored(userInput)
         THEN UNCHANGED <<currentImage, chatHistory, isGenerating, turns>>
         ELSE LET newHistory == Append(chatHistory, UserMessage(userInput))
                  r == remixImage(currentImage, userInput)
              IN IF r.kind = "await"
                   THEN /\ chatHistory' = newHistory
                        /\ isGenerating' = TRUE
                        /\ turns' = Append(turns, [newHistory |-> newHistory,
                                                   request |-> r.request,
                                                   reply |-> NoReply])
                        /\ UNCHANGED currentImage
                   ELSE /\ SendSettled(newHistory, r)
                        /\ UNCHANGED turns
  /\ sends' = sends + 1
  /\ UNCHANGED <<appVars, remixModalState, batches, jobs, faults, gen>>

\* the service answers a remix call
RemixResolve ==
  /\ \E i \in 1..Len(turns), response \in RemixResponses :
       /\ turns[i].reply = NoReply
       /\ HasInlineImage(response) \/ faults < MaxFaults
       /\ faults' = IF HasInlineImage(response) THEN faults ELSE faults + 1
       /\ SendSettled(turns[i].newHistory, remixImage_resolved(response))
       /\ turns' = [turns EXCEPT ![i].reply = [kind |-> "response", response |-> response]]
  /\ UNCHANGED <<appVars, remixModalState, batches, jobs, sends, gen>>

\* a remix call fails
RemixReject ==
  /\ \E i \in 1..Len(turns), message \in RemixErrors :
       /\ turns[i].reply = NoReply
       /\ faults < MaxFaults
       /\ faults' = faults + 1
       /\ SendSettled(turns[i].newHistory, remixImage_rejected(message))
       /\ turns' = [turns EXCEPT ![i].reply = [kind |-> "error", message |-> message]]
  /\ UNCHANGED <<appVars, remixModalState, batches, jobs, sends, gen>>

\* faulty variant: the saved entry is left waiting
Remixed_pending(prev, newImageUrl) ==
  [prev EXCEPT !.status = "pending", !.url = newImageUrl]

\* {...prev[scene], status: 'done', url: newImageUrl}
Remixed(prev, newImageUrl) == [prev EXCEPT !.status = "done", !.url = newImageUrl]

\* handleSave of the modal: onSave(scene, currentImage) is
\* handleSaveRemixedImage, which ends with handleCloseRemixModal
handleSave ==
  /\ remixModalState.isOpen
  /\ currentImage # NoString
  /\ LET scene == remixModalState.scene
         prev == IF Has(generatedImages, scene) THEN generatedImages[scene]
                 ELSE [status |-> NoString, url |-> NoString, error |-> NoString]
     IN generatedImages' =
          SetEntry(generatedImages, scene, Remixed(prev, currentImage))
  /\ SetModal(ModalClosed)
  /\ UNCHANGED <<uploadedImage, isLoading, appState, isGenerating, turns, batches,
                 jobs, faults, sends, gen>>

Init ==
  /\ AppInit
  /\ gen = [kind |-> "none"]

Next ==
  \/ handleImageUpload
  \/ handleGenerateClick
  \/ handleRegenerateScene
  \/ handleReset
  \/ JobResolve
  \/ JobReject
  \/ JobTimer
  \/ handleOpenRemixModal
  \/ handleCloseRemixModal
  \/ handleSave

\* the page: upload, generation, regeneration, reset, and the remix modal
\* opened, closed and saved
Spec == Init /\ [][Next]_vars

\* the invocations that can be in flight: one per worker of the running
\* batch, and the regenerations
JobIds ==
  {<<1, w>> : w \in 1..concurrencyLimit} \cup {<<0, n>> : n \in 1..MaxRegens}

\* the pending call or timer of invocation id settles in this step
Progress(id) ==
  /\ id \in DOMAIN jobs
  /\ \/ \E response \in AppResponses : ResolveOf(id, response)
     \/ \E message \in AppErrors : RejectOf(id, message)
     \/ TimerOf(id)

NextLive ==
  \/ handleImageUpload
  \/ handleGenerateClick
  \/ handleRegenerateScene
  \/ handleReset
  \/ JobResolve
  \/ JobReject
  \/ JobTimer

\* the page without its modal, with a service that settles every call and
\* timers that fire
SpecLive ==
  /\ Init
  /\ [][NextLive]_vars
  /\ \A id \in JobIds : WF_vars(Progress(id))

\* the service answers a generateContent call of a job with inline data
GenerationResolves ==
  \E id \in DOMAIN jobs, response \in {RImage} :
     /\ jobs[id].pc = "call"
     /\ AfterStep(id, OnResponse(jobs[id], response))
     /\ UNCHANGED <<modalVars, faults, sends, gen>>

\* the form of the modal: its input and its button are disabled while
\* isGenerating, so that it is submitted only otherwise
Submit == ~isGenerating /\ handleSend

NextRemix ==
  \/ handleImageUpload
  \/ handleGenerateClick
  \/ GenerationResolves
  \/ handleOpenRemixModal
  \/ handleCloseRemixModal
  \/ Submit
  \/ RemixResolve
  \/ RemixReject
  \/ handleSave

\* the remix modal at work on the results of a batch
SpecRemix == Init /\ [][NextRemix]_vars

NextSend ==
  \/ handleImageUpload
  \/ handleGenerateClick
  \/ GenerationResolves
  \/ handleOpenRemixModal
  \/ handleCloseRemixModal
  \/ handleSend
  \/ RemixResolve
  \/ RemixReject
  \/ handleSave

\* the remix modal with handleSend called at any time, also while a turn is
\* generating
SpecSend == Init /\ [][NextSend]_vars

\* handleOpenRemixModal up to the render with the new props: the modal is
\* rendered with initialImageUrl, and useEffect([initialImageUrl]) has not
\* run yet, so that currentImage is still the null of the closed modal
OpenRenders ==
  /\ ~remixModalState.isOpen
  /\ ~isGenerating
  /\ currentImage = NoString
  /\ \E scene \in SceneSet :
       /\ CanRemix(scene)
       /\ remixModalState' = [isOpen |-> TRUE, scene |-> scene,
                              imageUrl |-> generatedImages[scene].url]
  /\ UNCHANGED <<appVars, currentImage, chatHistory, isGenerating, turns, batches,
                 jobs, faults, sends, gen>>

\* useEffect([initialImageUrl]) after that render
ImageEffect ==
  /\ remixModalState.isOpen
  /\ currentImage = NoString
  /\ currentImage' = remixModalState.imageUrl
  /\ chatHistory' = <<>>
  /\ UNCHANGED <<appVars, remixModalState, isGenerating, turns, batches, jobs,
                 faults, sends, gen>>

NextModal ==
  \/ handleImageUpload
  \/ handleGenerateClick
  \/ GenerationResolves
  \/ OpenRenders
  \/ ImageEffect
  \/ handleCloseRemixModal
  \/ Submit
  \/ RemixResolve
  \/ RemixReject
  \/ handleSave

\* the remix modal with the render of its opening and the effect that
\* follows it as two steps
SpecModal == Init /\ [][NextModal]_vars

\* the service answers a generateContent call, with or without an image
ServiceResolves ==
  \E id \in DOMAIN jobs, response \in AppResponses :
     /\ jobs[id].pc = "call"
     /\ AfterStep(id, OnResponse(jobs[id], response))
     /\ UNCHANGED <<modalVars, faults, sends, gen>>

\* a generateContent call fails
ServiceRejects ==
  \E id \in DOMAIN jobs, message \in AppErrors :
     /\ jobs[id].pc = "call"
     /\ AfterStep(id, OnError(jobs[id], message))
     /\ UNCHANGED <<modalVars, faults, sends, gen>>

NextBatch ==
  \/ handleImageUpload
  \/ handleGenerateClick
  \/ ServiceResolves
  \/ ServiceRejects
  \/ JobTimer

\* one batch, for every behaviour of the service: any call may be refused
\* or fail
SpecBatch == Init /\ [][NextBatch]_vars

\* ------------------------------------------------------------------------
\* Properties
\* ------------------------------------------------------------------------

\* the failures that carry an internal/server-fault marker
TransientFault(message) == message \in {ErrInternal, ErrInternalStatus}

IsSuffix(suffix, str) ==
  /\ Len(suffix) <= Len(str)
  /\ SubSeq(str, Len(str) - Len(suffix) + 1, Len(str)) = suffix

HasImage(response) ==
  response.hasParts /\ \E i \in 1..Len(response.parts) : response.parts[i].inlineData.present

OfStage(log, stage) ==
  LET Test(e) == e.stage = stage IN SelectSeq(log, Test)

Stages == {"original", "fallback"}

\* C7: callGeminiWithRetry retries only after a failure classified as a
\* transient server-side fault: every backoff wait and every call after the
\* first of an invocation follows such a failure of the attempt before; any
\* other failure is the last thing the invocation sees: it ends the
\* invocation with that failure, no call and no wait follows it.
C7_RetryOnlyTransient ==
  LET j == gen.job IN
  /\ \A k \in 1..Len(j.replies) :
       (~j.replies[k].ok /\ ~TransientFault(j.replies[k].message)) =>
          /\ k = Len(j.replies)
          /\ Len(j.calls) = k
          /\ gen.kind = "throw"
          /\ IsSuffix(j.replies[k].message, gen.message)
          /\ \A d \in 1..Len(j.delays) :
               <<j.delays[d].stage, j.delays[d].attempt>>
                 # <<j.replies[k].stage, j.replies[k].attempt>>
  /\ \A d \in 1..Len(j.delays) :
       \E k \in 1..Len(j.replies) :
          /\ j.replies[k].stage = j.delays[d].stage
          /\ j.replies[k].attempt = j.delays[d].attempt
          /\ ~j.replies[k].ok /\ TransientFault(j.replies[k].message)
  /\ \A c \in 1..Len(j.calls) :
       j.calls[c].attempt > 1 =>
          /\ c > 1
          /\ j.replies[c - 1].stage = j.calls[c].stage
          /\ j.replies[c - 1].attempt = j.calls[c].attempt - 1
          /\ ~j.replies[c - 1].ok /\ TransientFault(j.replies[c - 1].message)

\* a transient failure on attempt 1, then a non-transient one on attempt 2
C7_Witness ==
  /\ gen.kind = "throw"
  /\ Len(gen.job.replies) = 2
  /\ ~gen.job.replies[1].ok /\ TransientFault(gen.job.replies[1].message)
  /\ ~gen.job.replies[2].ok /\ gen.job.replies[2].message = ErrQuota

\* C8: one invocation of callGeminiWithRetry makes at most 3 generateContent
\* calls; its backoff waits are a prefix of <<1000, 2000>>, the wait after
\* attempt k (k = 1, 2) being 1000 * 2^(k-1) ms and following a transient
\* failure of attempt k, and no wait follows attempt 3.  A transient failure
\* on attempt 1 and an image on attempt 2 give success after exactly one
\* wait, of 1000 ms.
C8_AttemptsAndBackoff ==
  LET j == gen.job IN
  /\ \A st \in Stages :
       LET cs == OfStage(j.calls, st)
           ds == OfStage(j.delays, st)
           rs == OfStage(j.replies, st)
       IN /\ Len(cs) <= 3
          /\ Len(ds) <= 2
          /\ \A i \in 1..Len(ds) :
               /\ ds[i].attempt = i
               /\ ds[i].ms = <<1000, 2000>>[i]
               /\ Len(rs) >= i
               /\ ~rs[i].ok /\ TransientFault(rs[i].message)
          /\ (Len(rs) = 3 /\ j.stage = st) => j.pc # "sleep"
  /\ ( /\ Len(j.replies) = 2
       /\ ~j.replies[1].ok /\ TransientFault(j.replies[1].message)
       /\ j.replies[2].ok /\ HasImage(j.replies[2].response) )
     => /\ gen.kind = "return"
        /\ Len(j.delays) = 1 /\ j.delays[1].ms = 1000

\* a transient failure on attempt 1, an image on attempt 2
C8_Witness ==
  /\ Len(gen.job.replies) = 2
  /\ gen.job.replies[1] = [stage |-> "original", attempt |-> 1, ok |-> FALSE,
                           message |-> ErrInternal]
  /\ gen.job.replies[2] = [stage |-> "original", attempt |-> 2, ok |-> TRUE,
                           response |-> RImage]
  /\ gen.kind = "return"

\* the inline images of a response, as data URLs
ImageUrlsOf(response) ==
  {<<"data:">> \o response.parts[i].inlineData.mimeType \o <<";base64,">>
     \o response.parts[i].inlineData.data :
     i \in {n \in 1..Len(response.parts) : response.parts[n].inlineData.present}}

FallbackHead ==
  "Create an artistic image of the person in this photo. The style should be inspired by the anime 'Violet Evergarden', and the setting is \""
FallbackTail ==
  "\". The image should have a painterly, emotional feel, with authentic-looking clothing and background. Ensure the final image is high quality and artistic."

\* C9: when the primary prompt is refused (a response without an image) and
\* a later call, made with the fallback prompt, is answered with an image,
\* generateStyledImage succeeds with an image of that answer; every call
\* of the fallback stage carries the fixed template around the scene name,
\* whatever the image and the primary prompt were.
C9_FallbackSuccess ==
  LET j == gen.job
      last == j.replies[Len(j.replies)]
  IN
  /\ ( /\ j.replies # <<>>
       /\ last.stage = "fallback" /\ last.ok /\ HasImage(last.response) )
     => /\ gen.kind = "return"
        /\ gen.value \in ImageUrlsOf(last.response)
        /\ \E k \in 1..Len(j.replies) :
             /\ j.replies[k].stage = "original"
             /\ j.replies[k].ok /\ ~HasImage(j.replies[k].response)
  /\ \A c \in 1..Len(j.calls) :
       j.calls[c].stage = "fallback" =>
          /\ j.calls[c].text = <<FallbackHead, j.scene, FallbackTail>>
          /\ Includes(j.calls[c].text, j.scene)

\* refused on the primary prompt, answered with an image on the fallback
C9_Witness ==
  /\ gen.kind = "return"
  /\ Len(gen.job.replies) = 2
  /\ gen.job.replies[1].ok /\ gen.job.replies[1].response = RRefusal
  /\ gen.job.replies[2].stage = "fallback"
  /\ gen.job.replies[2].ok /\ gen.job.replies[2].response = RTextThenImages
  /\ gen.job.textPart # PrimaryPrompt(gen.job.scene)

\* C10: when the primary attempt ends with a failure other than "no image"
\* (the format error before any call, a non-transient failure of a call, or
\* a transient failure of attempt 3), generateStyledImage fails at once and
\* makes no call with the fallback prompt.
C10_NoFallbackAfterOtherFailure ==
  LET j == gen.job IN
  /\ \A k \in 1..Len(j.replies) :
       ( /\ j.replies[k].stage = "original"
         /\ ~j.replies[k].ok
         /\ (~TransientFault(j.replies[k].message) \/ j.replies[k].attempt = 3) )
       => /\ k = Len(j.replies)
          /\ gen.kind = "throw"
          /\ j.pc = "end"
          /\ \A c \in 1..Len(j.calls) : j.calls[c].stage = "original"
  /\ (gen.kind = "throw" /\ j.replies = <<>>) => j.calls = <<>>

\* three transient failures of the primary prompt
C10_Witness ==
  /\ gen.kind = "throw"
  /\ Len(gen.job.replies) = 3
  /\ \A k \in 1..3 :
       /\ gen.job.replies[k].stage = "original"
       /\ ~gen.job.replies[k].ok /\ TransientFault(gen.job.replies[k].message)


\* ------------------------------------------------------------------------
\* The page (Spec)
\* ------------------------------------------------------------------------

StatusOf(images, scene) ==
  IF Has(images, scene) THEN images[scene].status ELSE "absent"

BatchJobs(b) == {id \in DOMAIN jobs : id[1] = b}

JobsFor(scene) == {id \in DOMAIN jobs : jobs[id].scene = scene}

\* this step is the end of a handleGenerateClick: Promise.all(workers) has
\* returned, from a batch that awaited the service or from one whose calls
\* all threw at once
BatchCompletes ==
  \/ \E b \in DOMAIN batches : b \notin DOMAIN batches'
  \/ appState = "image-uploaded" /\ appState' = "results-shown"

\* C1 as the spec states it: when a batch completes, every scene is Done or
\* Failed
C1_Original ==
  [][BatchCompletes =>
       \A scene \in SceneSet : StatusOf(generatedImages', scene) \in {"done", "error"}]_vars

\* C1: when a batch completes, none of its jobs is in flight any more, and a
\* scene is Pending only where handleRegenerateScene has put it back to
\* Pending and that regeneration is still in flight; every other scene is
\* Done or Failed
C1_BatchLeavesNoPending ==
  [][BatchCompletes =>
       /\ \A b \in DOMAIN batches \ DOMAIN batches' :
             \A id \in DOMAIN jobs' : id[1] # b
       /\ \A scene \in SceneSet :
             \/ StatusOf(generatedImages', scene) \in {"done", "error"}
             \/ /\ StatusOf(generatedImages', scene) = "pending"
                /\ \E id \in DOMAIN jobs' : id[1] = 0 /\ jobs'[id].scene = scene]_vars

\* a batch has completed with a failed scene, a finished one, and one that a
\* regeneration in flight holds Pending
C1_Witness ==
  /\ appState = "results-shown"
  /\ batches = <<>>
  /\ \E s1, s2, s3 \in SceneSet :
       /\ StatusOf(generatedImages, s1) = "pending"
       /\ \E id \in RegenIds : jobs[id].scene = s1
       /\ StatusOf(generatedImages, s2) = "error"
       /\ StatusOf(generatedImages, s3) = "done"

\* C2 as the spec states it: at most 2 generateStyledImage calls are in
\* flight in every reachable state
C2_Original == Cardinality(DOMAIN jobs) <= 2

\* C2: of one batch at most 2 generateStyledImage calls are in flight, one
\* per worker still in its loop, whatever the number of scenes; the calls of
\* handleRegenerateScene are not counted in that limit
C2_BatchConcurrency ==
  /\ \A b \in DOMAIN batches :
       /\ Cardinality(BatchJobs(b)) <= 2
       /\ \A id \in BatchJobs(b) : id[2] \in batches[b].running
  /\ \A id \in DOMAIN jobs : id[1] = 0 \/ id[1] \in DOMAIN batches

\* both workers of a batch and a regeneration await the service at once
C2_Witness ==
  \E b \in DOMAIN batches :
     /\ Cardinality(BatchJobs(b)) = 2
     /\ batches[b].queue # <<>>
     /\ RegenIds # {}

\* C3 as the spec states it: handleRegenerateScene starts no job for a scene
\* that has a job in flight, so no two jobs of one scene are in flight at once
C3_Original ==
  [][\A id \in DOMAIN jobs' \ DOMAIN jobs :
        id[1] = 0 => JobsFor(jobs'[id].scene) = {}]_vars


\* the messages with which an invocation can fail at its next reply
ThrowMessages(job) ==
  LET outcomes == {OnResponse(job, response) : response \in AppResponses}
                    \cup {OnError(job, message) : message \in AppErrors}
  IN {r.message : r \in {x \in outcomes : x.kind = "throw"}}

\* the invocations that end, and those that begin, in this step
Ended == {id \in DOMAIN jobs : id \notin DOMAIN jobs' \/ jobs'[id].scene # jobs[id].scene}
Begun == {id \in DOMAIN jobs' : id \notin DOMAIN jobs \/ jobs'[id].scene # jobs[id].scene}

\* the generateStyledImage call of batch worker id fails in this step
BatchJobFails(id) ==
  /\ id[1] # 0
  /\ id \in Ended
  /\ jobs[id].pc = "call"
  /\ faults' = faults + 1

\* C4: the step in which a batch job fails sets that scene's entry to
\* Failed(message), with the message of the job's failure, and changes no
\* other entry; the other jobs in flight are left as they are; the failure
\* does not leave the batch: the worker takes the next scene of the queue,
\* or leaves its loop when the queue is empty, and the batch completes when
\* the last worker has left
C4_FailureIsolated ==
  [][\A id \in DOMAIN jobs : BatchJobFails(id) =>
       LET b == id[1]
           w == id[2]
           scene == jobs[id].scene
       IN /\ \E message \in ThrowMessages(jobs[id]) :
               /\ Has(generatedImages', scene)
               /\ generatedImages'[scene] = Failed(message)
          /\ DOMAIN generatedImages' = DOMAIN generatedImages \cup {scene}
          /\ \A other \in DOMAIN generatedImages \ {scene} :
               generatedImages'[other] = generatedImages[other]
          /\ \A j \in DOMAIN jobs \ {id} : j \in DOMAIN jobs' /\ jobs'[j] = jobs[j]
          /\ IF batches[b].queue # <<>>
               THEN /\ id \in DOMAIN jobs'
                    /\ jobs'[id].scene = Head(batches[b].queue)
                    /\ jobs'[id].pc = "call"
                    /\ b \in DOMAIN batches'
                    /\ batches'[b].queue = Tail(batches[b].queue)
                    /\ batches'[b].running = batches[b].running
                    /\ appState' = appState
               ELSE /\ id \notin DOMAIN jobs'
                    /\ IF batches[b].running = {w}
                         THEN b \notin DOMAIN batches' /\ appState' = "results-shown"
                         ELSE /\ b \in DOMAIN batches'
                              /\ batches'[b].running = batches[b].running \ {w}
                              /\ appState' = appState]_vars

\* a batch in which the first scene has failed while both workers are at
\* work on the scenes after it
C4_Witness ==
  \E b \in DOMAIN batches :
     /\ faults > 0
     /\ RegenIds = {}
     /\ Len(batches[b].started) = 3
     /\ StatusOf(generatedImages, batches[b].started[1]) = "error"
     /\ StatusOf(generatedImages, batches[b].started[2]) = "pending"
     /\ StatusOf(generatedImages, batches[b].started[3]) = "pending"
     /\ Cardinality(BatchJobs(b)) = 2

\* the elements of a sequence
Range(seq) == {seq[i] : i \in 1..Len(seq)}

\* C6: the scenes for which a batch has called generateStyledImage, followed
\* by the scenes still in its queue, are the scene list SCENES, so the scenes
\* are taken in list order and each one once; the batch's jobs in flight are
\* for different scenes, all of them taken from the queue; and a batch
\* completes only when it has taken every scene
C6_QueueOrder ==
  /\ [](\A b \in DOMAIN batches :
          /\ batches[b].started \o batches[b].queue = SCENES
          /\ \A id \in BatchJobs(b) : jobs[id].scene \in Range(batches[b].started)
          /\ \A id, other \in BatchJobs(b) :
               id # other => jobs[id].scene # jobs[other].scene)
  /\ [][\A b \in DOMAIN batches \ DOMAIN batches' :
          batches[b].queue = <<>> /\ batches[b].started = SCENES]_vars

\* a batch has taken every scene, the last one while the scene before it is
\* still in flight
C6_Witness ==
  \E b \in DOMAIN batches :
     /\ batches[b].queue = <<>>
     /\ batches[b].started = SCENES
     /\ {jobs[id].scene : id \in BatchJobs(b)} = {SCENES[NumScenes - 1], SCENES[NumScenes]}


NoEntry == [status |-> "absent", url |-> NoString, error |-> NoString]

EntryOf(images, scene) == IF Has(images, scene) THEN images[scene] ELSE NoEntry

\* this step is a handleGenerateClick
BatchStarts == appState = "image-uploaded" /\ appState' \in {"generating", "results-shown"}

\* a handleGenerateClick or handleRegenerateScene of this step wrote the
\* entry: Pending when its generateStyledImage call awaits the service,
\* Failed at once when the call throws on the photo's format
WrittenAtStart(scene, new) ==
  LET r == generateStyledImage(uploadedImage, PrimaryPrompt(scene), scene)
  IN IF r.kind = "await"
       THEN new = [status |-> "pending", url |-> NoString, error |-> NoString]
       ELSE new = [status |-> "error", url |-> NoString, error |-> r.message]

\* a generateStyledImage job for the scene ended in this step and wrote the entry
WrittenByJob(scene, new) ==
  /\ \E id \in Ended : jobs[id].scene = scene
  /\ \/ new.status = "done" /\ new.url # NoString /\ new.error = NoString
     \/ new.status = "error" /\ new.url = NoString /\ new.error # NoString

\* handleRegenerateScene put the entry back to Pending and started a job
Regenerated(scene, old, new) ==
  /\ old.status # "pending"
  /\ \/ \E id \in Begun : id[1] = 0 /\ jobs'[id].scene = scene
     \/ ~MatchesDataUrl(uploadedImage)
  /\ WrittenAtStart(scene, new)

\* handleSaveRemixedImage wrote the remix modal's image into the entry
Saved(scene, old, new) ==
  /\ remixModalState.isOpen /\ remixModalState.scene = scene
  /\ ~remixModalState'.isOpen
  /\ new = [status |-> "done", url |-> currentImage, error |-> old.error]

\* handleReset or handleImageUpload emptied the map
Cleared == generatedImages' = <<>> /\ appState' \in {"idle", "image-uploaded"}

\* C5 as the spec states it: an entry is created Pending at batch start, is
\* written once, from Pending to Done or Failed, by a job for its scene, and
\* after that changes only through handleRegenerateScene
C5_Original ==
  [][\A scene \in SceneSet :
       LET old == EntryOf(generatedImages, scene)
           new == EntryOf(generatedImages', scene)
       IN \/ new = old
          \/ BatchStarts /\ WrittenAtStart(scene, new)
          \/ old.status = "pending" /\ WrittenByJob(scene, new)
          \/ old.status \in {"done", "error"} /\ Regenerated(scene, old, new)]_vars

\* C5: handleGenerateClick sets every scene's entry to Pending at batch
\* start.  An entry then changes only when a generateStyledImage job for its
\* scene ends and writes Done or Failed (a job of the batch, of
\* handleRegenerateScene, or one started before a reset; each job writes
\* once, when it ends), when handleRegenerateScene puts an entry that is not
\* Pending back to Pending, when handleSaveRemixedImage sets it to done with
\* the remix modal's image, and when handleReset or an upload empties the map
C5_EntryChanges ==
  [][\A scene \in SceneSet :
       LET old == EntryOf(generatedImages, scene)
           new == EntryOf(generatedImages', scene)
       IN \/ new = old
          \/ BatchStarts /\ WrittenAtStart(scene, new)
          \/ WrittenByJob(scene, new)
          \/ Regenerated(scene, old, new)
          \/ Saved(scene, old, new)
          \/ Cleared]_vars

\* an entry that a job started before a reset set to Failed and that
\* handleSaveRemixedImage then set to done
C5_Witness ==
  \E scene \in SceneSet :
     /\ StatusOf(generatedImages, scene) = "done"
     /\ generatedImages[scene].error # NoString
     /\ ~remixModalState.isOpen


\* ------------------------------------------------------------------------
\* One batch under every behaviour of the service (SpecBatch)
\* ------------------------------------------------------------------------

\* the message of the error that ends a callGeminiWithRetry or a
\* processGeminiResponse without an image, in a run of the app
RefusalMessage(response) ==
  <<"The AI model responded with text instead of an image", ": \"">>
    \o (IF response.text = NoString THEN <<"No text response received.">>
                                    ELSE response.text)
    \o <<"\"">>

UnderlyingFailures ==
  AppErrors \cup {RefusalMessage(response) : response \in {r \in AppResponses : ~HasImage(r)}}

BothFailed == "The AI model failed with both original and fallback prompts. Last error: "

\* C11: a generateStyledImage job that has gone on to the fallback prompt
\* (its primary prompt was refused) and ends there either succeeds, and its
\* scene becomes Done, or fails, and then its scene becomes Failed with the
\* message "The AI model failed with both original and fallback prompts.
\* Last error: " followed by the message of the fallback's last failure (the
\* refusal's message or the service error's own message)
C11_CompositeFailure ==
  [][\A id \in Ended : jobs[id].stage = "fallback" =>
       LET new == EntryOf(generatedImages', jobs[id].scene)
       IN \/ new.status = "done"
          \/ \E underlying \in UnderlyingFailures :
               /\ jobs[id].attempt < maxRetries => ~TransientFault(underlying)
               /\ new = [status |-> "error", url |-> NoString,
                         error |-> <<BothFailed>> \o underlying]]_vars

\* one scene has failed by two refusals, another by a refusal and then a
\* transient fault on each of the fallback's three attempts
C11_Witness ==
  \E s1, s2 \in SceneSet :
     /\ StatusOf(generatedImages, s1) = "error"
     /\ generatedImages[s1].error = <<BothFailed>> \o RefusalMessage(RRefusal)
     /\ StatusOf(generatedImages, s2) = "error"
     /\ generatedImages[s2].error = <<BothFailed>> \o ErrInternal


\* ------------------------------------------------------------------------
\* The remix modal on the results of a batch (SpecRemix)
\* ------------------------------------------------------------------------

\* the strings data:image/<subtype>;base64,<payload> among those of the model
ImageSubtypes == {"png", "jpeg"}

IsImageDataUrl(url) ==
  \E subtype \in ImageSubtypes :
     /\ Len(url) >= 5
     /\ SubSeq(url, 1, 5) = <<"data:", "image", "/", subtype, ";base64,">>

\* this step is a handleSend
Sends == sends' = sends + 1

GenerationFormatError ==
  <<"Invalid image data URL format. Expected 'data:image/...;base64,...'">>

RemixFormatError == <<"Invalid image data URL format for remix.">>

\* C12: with a photo that is no data:image/<subtype>;base64,<payload>
\* string, handleGenerateClick makes no service call, sets every scene to
\* Failed with generateStyledImage's format error and completes the batch at
\* once; with such a current image, handleSend makes no service call and
\* remixImage's format error ends the turn
C12_FormatRejectedBeforeCall ==
  [][/\ (BatchStarts /\ ~IsImageDataUrl(uploadedImage)) =>
          /\ jobs' = jobs /\ turns' = turns
          /\ \A scene \in SceneSet :
               EntryOf(generatedImages', scene) =
                 [status |-> "error", url |-> NoString, error |-> GenerationFormatError]
          /\ appState' = "results-shown"
     /\ (Sends /\ ~IsImageDataUrl(currentImage)) =>
          /\ jobs' = jobs /\ turns' = turns
          /\ ~isGenerating'
          /\ currentImage' = currentImage
          /\ Len(chatHistory') = Len(chatHistory) + 2
          /\ chatHistory'[Len(chatHistory')].type = "bot"
          /\ chatHistory'[Len(chatHistory')].text =
               <<"Sorry, I couldn't remix that. ">> \o RemixFormatError]_vars

\* a remix turn on inline data that is no image has been refused
C12_Witness ==
  /\ remixModalState.isOpen
  /\ ~IsImageDataUrl(currentImage)
  /\ chatHistory # <<>>
  /\ chatHistory[Len(chatHistory)].text =
       <<"Sorry, I couldn't remix that. ">> \o RemixFormatError


\* the remix call of turn i settles in this step
Settles(i) == turns[i].reply = NoReply /\ turns'[i].reply # NoReply

\* the texts of a response's parts, in order
PartTexts(response) ==
  LET HasText(part) == ~part.inlineData.present /\ part.text # NoString
  IN SelectSeq(response.parts, HasText)

\* a response with content parts, none of them inline data, that carries
\* text in a part or at its top level; and that text
TextOnly(response) ==
  /\ response.hasParts
  /\ \A n \in 1..Len(response.parts) : ~response.parts[n].inlineData.present
  /\ PartTexts(response) # <<>> \/ response.text # NoString

TextOf(response) ==
  IF PartTexts(response) # <<>>
    THEN PartTexts(response)[Len(PartTexts(response))].text
    ELSE response.text

\* a handleSend that reaches the service puts the user's instruction at the
\* end of the history and keeps that history for the turn
SendAppendsUser ==
  (Sends /\ Len(turns') = Len(turns) + 1) =>
     LET turn == turns'[Len(turns')]
     IN /\ chatHistory' = Append(chatHistory, UserMessage(turn.request.textPart))
        /\ turn.newHistory = chatHistory'
        /\ currentImage' = currentImage

\* C13: a remix turn whose response carries text only leaves currentImage as
\* it is and makes the history the one handleSend started from, then the
\* user's instruction, then one bot message with the response's text and no
\* image
C13_TextOnlyTurn ==
  [][/\ SendAppendsUser
     /\ \A i \in 1..Len(turns) :
          (/\ Settles(i)
           /\ turns'[i].reply.kind = "response"
           /\ TextOnly(turns'[i].reply.response)) =>
             /\ currentImage' = currentImage
             /\ chatHistory' =
                  Append(turns[i].newHistory,
                         [type |-> "bot", text |-> TextOf(turns'[i].reply.response),
                          imageUrl |-> NoString])]_vars

\* the open modal after a turn that was answered with top-level text only
C13_Witness ==
  /\ remixModalState.isOpen
  /\ currentImage = remixModalState.imageUrl
  /\ Len(chatHistory) = 2
  /\ chatHistory[1].type = "user"
  /\ chatHistory[2] = [type |-> "bot", text |-> RTopLevelText.text, imageUrl |-> NoString]
  /\ \E i \in 1..Len(turns) :
        turns[i].reply = [kind |-> "response", response |-> RTopLevelText]


\* what the call of turn i failed with, <<>> if it did not fail: the
\* service's error, or the fault of a response without parts or without
\* any image or text
FailureOf(reply) ==
  IF reply.kind = "error" THEN reply.message
  ELSE IF reply.kind # "response" THEN <<>>
  ELSE IF ~reply.response.hasParts
    THEN <<"Invalid response format from AI model.">>
  ELSE IF /\ \A n \in 1..Len(reply.response.parts) :
                ~reply.response.parts[n].inlineData.present
          /\ PartTexts(reply.response) = <<>>
          /\ reply.response.text = NoString
    THEN <<"The AI model did not return an image or text.">>
  ELSE <<>>

FailedTurn(i) == FailureOf(turns[i].reply) # <<>>

\* the turn of this step settles as a failure: the image stays, the history
\* is the turn's own followed by one bot message with the error text, and
\* the modal is no longer generating
FailureSettles ==
  \A i \in 1..Len(turns) :
     (Settles(i) /\ FailureOf(turns'[i].reply) # <<>>) =>
        /\ currentImage' = currentImage
        /\ chatHistory' =
             Append(turns[i].newHistory,
                    [type |-> "bot",
                     text |-> <<"Sorry, I couldn't remix that. ",
                                "The AI model failed to remix the image. Details: ">>
                              \o FailureOf(turns'[i].reply),
                     imageUrl |-> NoString])
        /\ Len(turns[i].newHistory) > 0
        /\ turns[i].newHistory[Len(turns[i].newHistory)] =
             UserMessage(turns[i].request.textPart)
        /\ isGenerating' = FALSE

\* a handleSend after a failed turn, on an image that is a data URL of an
\* image, calls the service with that image and the instruction
SendAfterFailure ==
  (/\ Sends
   /\ \E i \in 1..Len(turns) : FailedTurn(i)
   /\ ~isGenerating
   /\ IsImageDataUrl(currentImage)) =>
      /\ Len(turns') = Len(turns) + 1
      /\ turns'[Len(turns')].reply = NoReply
      /\ turns'[Len(turns')].request.imagePart = ImagePartOf(currentImage)
      /\ isGenerating'

\* C14: a remix turn that fails (the service call rejects, or its response
\* has no parts, or no image and no text) leaves currentImage as it is, ends
\* with the history of the turn (which ends with the user's instruction)
\* followed by one bot message reading "Sorry, I couldn't remix that. The AI
\* model failed to remix the image. Details: <cause>", and leaves the modal
\* not generating, so that the next handleSend sends a new request
C14_FailedTurn == [][FailureSettles /\ SendAfterFailure]_vars

\* a second request is in flight in the modal whose first turn failed on a
\* response without parts
C14_Witness ==
  /\ remixModalState.isOpen
  /\ Len(turns) = 2
  /\ turns[1].reply = [kind |-> "response", response |-> RNoParts]
  /\ turns[2].reply = NoReply
  /\ Len(chatHistory) = 3
  /\ chatHistory[2].type = "bot"
  /\ chatHistory[3].type = "user"
  /\ currentImage = remixModalState.imageUrl


\* the inline-data parts of a response, in order, and the data URL of the
\* last of them
PartImages(response) ==
  LET IsInline(part) == part.inlineData.present
  IN SelectSeq(response.parts, IsInline)


ImageOf(response) ==
  LET part == PartImages(response)[Len(PartImages(response))]
  IN <<"data:">> \o part.inlineData.mimeType \o <<";base64,">> \o part.inlineData.data

\* the turn of this step settles with a response that carries an image: the
\* history is the turn's own followed by one bot message with the image and
\* the text of the last text part, if any; the image is the current one
ImageSettles ==
  \A i \in 1..Len(turns) :
     (/\ Settles(i)
      /\ turns'[i].reply.kind = "response"
      /\ HasImage(turns'[i].reply.response)) =>
        LET response == turns'[i].reply.response
        IN /\ currentImage' = ImageOf(response)
           /\ Len(chatHistory') = Len(turns[i].newHistory) + 1
           /\ SubSeq(chatHistory', 1, Len(turns[i].newHistory)) = turns[i].newHistory
           /\ turns[i].newHistory[Len(turns[i].newHistory)] =
                UserMessage(turns[i].request.textPart)
           /\ chatHistory'[Len(chatHistory')] =
                [type |-> "bot",
                 text |-> IF PartTexts(response) = <<>> THEN NoString
                          ELSE TextOf(response),
                 imageUrl |-> ImageOf(response)]
           /\ isGenerating' = FALSE

\* every handleSend that reaches the service sends the current image, parsed
\* from its data URL, with the instruction
SendCarriesCurrent ==
  (Sends /\ Len(turns') = Len(turns) + 1) =>
     /\ turns'[Len(turns')].request.imagePart = ImagePartOf(currentImage)
     /\ DataUrl(turns'[Len(turns')].request.imagePart.mimeType,
                turns'[Len(turns')].request.imagePart.data) = currentImage

\* C15: a remix turn that succeeds ends with the history of the turn (which
\* ends with the user's instruction) followed by one bot message holding the
\* image and/or the text of the response; when the response carries an
\* image, currentImage becomes the data URL of the last inline part, and the
\* request of the next turn carries the image that is current when it is
\* sent
C15_SuccessfulTurn ==
  [][SendAppendsUser /\ ImageSettles /\ SendCarriesCurrent]_vars

\* the second request carries the last image of the first turn's response,
\* which had a text and two images
C15_Witness ==
  /\ remixModalState.isOpen
  /\ Len(turns) = 2
  /\ turns[1].reply = [kind |-> "response", response |-> RTextThenImages]
  /\ turns[2].request.imagePart = [mimeType |-> MimeJpeg, data |-> <<"IMG-3">>]
  /\ Len(chatHistory) = 3
  /\ chatHistory[2] = [type |-> "bot", text |-> <<"Here you go">>,
                       imageUrl |-> DataUrl(MimeJpeg, <<"IMG-3">>)]
  /\ currentImage = DataUrl(MimeJpeg, <<"IMG-3">>)


\* ------------------------------------------------------------------------
\* The modal between the render of its opening and its effect (SpecModal)
\* ------------------------------------------------------------------------

\* handleSend is called on a rendered modal that has no current image
SendWithoutImage == Sends /\ remixModalState.isOpen /\ currentImage = NoString

\* C16 as stated, which the code does not satisfy: handleSend on a modal
\* without current image ends with an error the user gets to see, the only
\* such error of handleSend being a bot message in the history, and calls
\* no service
C16_Original ==
  [][SendWithoutImage =>
       /\ Len(chatHistory') = Len(chatHistory) + 1
       /\ chatHistory'[Len(chatHistory')].type = "bot"
       /\ turns' = turns]_vars

\* C16: handleSend on a modal without current image calls no service and
\* returns without any effect: no message, no change of the history, of the
\* image, of isGenerating or of the page
C16_SendWithoutImage ==
  [][SendWithoutImage =>
       /\ turns' = turns
       /\ UNCHANGED <<chatHistory, currentImage, isGenerating, remixModalState>>
       /\ UNCHANGED appVars]_vars

\* handleSend has been called on the modal that is rendered without current
\* image
C16_Witness ==
  /\ remixModalState.isOpen
  /\ remixModalState.imageUrl # NoString
  /\ currentImage = NoString
  /\ sends > 0
  /\ turns = <<>>
  /\ chatHistory = <<>>


\* ------------------------------------------------------------------------
\* Saving from the modal (SpecRemix)
\* ------------------------------------------------------------------------

\* the modal is closed in this step, by handleCloseRemixModal or by
\* handleSave; and opened
ModalCloses == remixModalState.isOpen /\ ~remixModalState'.isOpen
ModalOpens == ~remixModalState.isOpen /\ remixModalState'.isOpen

\* the step that closes the modal changes the map: it is a handleSave
SaveWrites == ModalCloses /\ generatedImages' # generatedImages

\* C17: handleSave makes the entry of the modal's scene Done with the image
\* that is current when it is called, changes no other scene's entry and
\* closes the modal; closing empties the history and the current image, and
\* a modal opened later starts with an empty history and the image of the
\* card it was opened from
C17_Save ==
  [][/\ SaveWrites =>
          LET scene == remixModalState.scene
          IN /\ Has(generatedImages', scene)
             /\ generatedImages'[scene].status = "done"
             /\ generatedImages'[scene].url = currentImage
             /\ currentImage # NoString
             /\ DOMAIN generatedImages' = DOMAIN generatedImages \cup {scene}
             /\ \A other \in DOMAIN generatedImages \ {scene} :
                   generatedImages'[other] = generatedImages[other]
     /\ ModalCloses => chatHistory' = <<>> /\ currentImage' = NoString
     /\ ModalOpens =>
          /\ chatHistory' = <<>>
          /\ Has(generatedImages, remixModalState'.scene)
          /\ currentImage' = generatedImages[remixModalState'.scene].url]_vars

\* the modal is open again, with an empty history, on the remixed image
\* that was saved for its scene, while another scene has its generated image
C17_Witness ==
  /\ remixModalState.isOpen
  /\ chatHistory = <<>>
  /\ currentImage = DataUrl(MimePng, <<"IMG-R">>)
  /\ Has(generatedImages, remixModalState.scene)
  /\ generatedImages[remixModalState.scene] = Done(currentImage)
  /\ \E other \in DOMAIN generatedImages :
        /\ other # remixModalState.scene
        /\ generatedImages[other] = Done(DataUrl(MimePng, <<"IMG-1">>))
  /\ \E i \in 1..Len(turns) : turns[i].reply.kind = "response"


\* ------------------------------------------------------------------------
\* processMultipartGeminiResponse on every response (SpecInterpret)
\* ------------------------------------------------------------------------

\* the text of the last part that holds text and no inline data
LastPartText(response) == PartTexts(response)[Len(PartTexts(response))].text

\* C18: for a response whose parts hold an image or a text,
\* processMultipartGeminiResponse returns as imageUrl the data URL of the
\* last part with inline data, none if no part has inline data, and as text
\* the text of the last part that holds text (and no inline data), none if
\* there is no such part
C18_LastImageLastText ==
  (/\ gen.kind = "interpreted"
   /\ gen.response.hasParts
   /\ PartImages(gen.response) # <<>> \/ PartTexts(gen.response) # <<>>) =>
      gen.result =
        [kind |-> "return",
         value |-> [imageUrl |-> IF PartImages(gen.response) # <<>>
                                   THEN ImageOf(gen.response) ELSE NoString,
                    text |-> IF PartTexts(gen.response) # <<>>
                               THEN LastPartText(gen.response) ELSE NoString]]

\* a response of two texts and two images, interleaved, has been interpreted
\* as its second text and its second image
C18_Witness ==
  /\ gen.kind = "interpreted"
  /\ gen.response.parts =
       << TxtPart(<<"I cannot do that">>), ImgPart(MimePng, <<"IMG-2">>),
          TxtPart(<<"Here you go">>), ImgPart(MimeJpeg, <<"IMG-3">>) >>
  /\ gen.result.kind = "return"
  /\ gen.result.value = [imageUrl |-> DataUrl(MimeJpeg, <<"IMG-3">>),
                         text |-> <<"Here you go">>]


\* ------------------------------------------------------------------------
\* A response without parts, in either function (SpecService)
\* ------------------------------------------------------------------------

\* the replies of the lone invocation that are a response without any
\* content parts
WithoutParts ==
  LET replies == IF gen.kind = "remix" THEN gen.replies ELSE gen.job.replies
  IN {k \in 1..Len(replies) : replies[k].ok /\ ~replies[k].response.hasParts}

\* C19 as stated, which the code does not satisfy: a response without any
\* content parts ends the invocation at once, as a failure, and no service
\* call follows it, in generateStyledImage as in remixImage
C19_Original ==
  \A k \in WithoutParts :
     IF gen.kind = "remix"
       THEN k = Len(gen.replies) /\ gen.step.kind = "throw"
       ELSE /\ k = Len(gen.job.replies)
            /\ Len(gen.job.calls) = k
            /\ gen.kind = "throw"

\* C19: remixImage fails at once on a response without content parts, with
\* "Invalid response format from AI model." as the detail, and makes no other
\* call.  generateStyledImage takes such a response for a missing image: on
\* the original prompt the next call is the first one with the fallback
\* prompt; on the fallback prompt the invocation fails and no call follows
C19_ResponseWithoutParts ==
  \A k \in WithoutParts :
     IF gen.kind = "remix"
       THEN /\ Len(gen.replies) = 1
            /\ gen.step =
                 [kind |-> "throw",
                  message |-> <<"The AI model failed to remix the image. Details: ",
                                "Invalid response format from AI model.">>]
       ELSE LET j == gen.job
            IN IF j.replies[k].stage = "original"
                 THEN /\ Len(j.calls) > k
                      /\ j.calls[k + 1].stage = "fallback"
                      /\ j.calls[k + 1].attempt = 1
                      /\ j.calls[k + 1].text = <<FallbackHead, j.scene, FallbackTail>>
                 ELSE /\ k = Len(j.replies)
                      /\ Len(j.calls) = k
                      /\ gen.kind = "throw"
                      /\ IsSuffix(<<NoImageMarker, ": \"", "No text response received.", "\"">>,
                                  gen.message)

\* generateStyledImage got a response without parts on the original prompt
\* and is calling the service with the fallback prompt
C19_Witness ==
  /\ gen.kind = "await"
  /\ gen.job.pc = "call"
  /\ gen.job.stage = "fallback"
  /\ Len(gen.job.calls) = 2
  /\ Len(gen.job.replies) = 1
  /\ gen.job.replies[1].ok
  /\ gen.job.replies[1].response = RNoParts


\* ------------------------------------------------------------------------
\* A produced image as the input of remixImage (SpecFeedBack)
\* ------------------------------------------------------------------------

\* the service's inline part that the image was produced from
FedPart == gen.response.parts[1].inlineData

\* C20 as stated, which the code does not satisfy: remixImage never rejects
\* a produced image for its format
C20_Original == gen.kind = "fed" => gen.step.kind = "await"

\* C20: the image produced from an inline part is the string
\* data:<mimeType>;base64,<data> of that part; remixImage accepts it exactly
\* when the mimeType is image/<word characters> and the data has no line
\* break, and then sends the part's mimeType and data as they were; it
\* rejects every other one with its format error
C20_ProducedImageFedBack ==
  /\ gen.kind \in {"produced", "fed"} =>
        gen.url = <<"data:">> \o FedPart.mimeType \o <<";base64,">> \o FedPart.data
  /\ gen.kind = "fed" =>
        IF /\ FedPart.mimeType \in {<<"image", "/", "png">>, <<"image", "/", "jpeg">>}
           /\ \A n \in 1..Len(FedPart.data) : FedPart.data[n] # "\n"
          THEN /\ gen.step.kind = "await"
               /\ gen.step.request.imagePart =
                    [mimeType |-> FedPart.mimeType, data |-> FedPart.data]
          ELSE gen.step = [kind |-> "throw", message |-> RemixFormatError]

\* an image that generateStyledImage produced from inline data of type
\* image/jpeg has been accepted by remixImage
C20_Witness ==
  /\ gen.kind = "fed"
  /\ gen.producer = "processGeminiResponse"
  /\ FedPart.mimeType = MimeJpeg
  /\ FedPart.data = <<"IMG-1">>
  /\ gen.step.kind = "await"


\* ------------------------------------------------------------------------
\* The fallback attempt and the budget of one invocation (SpecGen)
\* ------------------------------------------------------------------------

\* reply k of the invocation is a response without an image
Refused(k) == gen.job.replies[k].ok /\ ~HasImage(gen.job.replies[k].response)

\* the calls that open an attempt with the fallback prompt
FallbackStarts ==
  {c \in 1..Len(gen.job.calls) :
      gen.job.calls[c].stage = "fallback" /\ gen.job.calls[c].attempt = 1}

\* C21: a response without an image to the primary prompt, on attempt 1, 2
\* or 3, is followed by exactly one fallback attempt, whose first call is the
\* next call of the invocation, made when every call with the primary prompt
\* has been answered; a response without an image to the fallback prompt
\* ends the invocation as a failure and no call follows it
C21_OneFallback ==
  LET j == gen.job IN
  /\ \A k \in 1..Len(j.replies) :
       (Refused(k) /\ j.replies[k].stage = "original") =>
          /\ Len(j.calls) > k
          /\ FallbackStarts = {k + 1}
          /\ j.calls[k + 1].text = <<FallbackHead, j.scene, FallbackTail>>
          /\ \A c \in 1..k : j.calls[c].stage = "original"
          /\ \A c \in (k + 1)..Len(j.calls) : j.calls[c].stage = "fallback"
  /\ \A k \in 1..Len(j.replies) :
       (Refused(k) /\ j.replies[k].stage = "fallback") =>
          /\ k = Len(j.replies)
          /\ Len(j.calls) = k
          /\ gen.kind = "throw"
  /\ Cardinality(FallbackStarts) <= 1
  /\ \A c \in FallbackStarts : c > 1 /\ Refused(c - 1) /\ j.replies[c - 1].stage = "original"

\* the primary prompt was refused on its third attempt, after two transient
\* failures, and the fallback prompt was refused too
C21_Witness ==
  /\ gen.kind = "throw"
  /\ Len(gen.job.replies) = 4
  /\ \A k \in 1..2 :
       ~gen.job.replies[k].ok /\ TransientFault(gen.job.replies[k].message)
  /\ gen.job.replies[3].stage = "original" /\ Refused(3)
  /\ gen.job.replies[4].stage = "fallback" /\ Refused(4)


\* the milliseconds of the backoff waits of a log, added up
RECURSIVE TotalMs(_)
TotalMs(log) == IF log = <<>> THEN 0 ELSE log[1].ms + TotalMs(Tail(log))

\* C22: one invocation of generateStyledImage makes at most 3 calls with the
\* primary prompt and at most 3 with the fallback prompt, 6 in all, and
\* waits at most 3000 ms between the calls of either prompt, 6000 ms in all;
\* without fallback attempt it makes at most 3 calls and waits at most
\* 3000 ms
C22_CallAndWaitBudget ==
  LET j == gen.job IN
  /\ \A st \in Stages :
       /\ Len(OfStage(j.calls, st)) <= 3
       /\ TotalMs(OfStage(j.delays, st)) <= 3000
  /\ Len(j.calls) <= 6
  /\ TotalMs(j.delays) <= 6000
  /\ Len(j.calls) = Len(OfStage(j.calls, "original")) + Len(OfStage(j.calls, "fallback"))
  /\ FallbackStarts = {} => Len(j.calls) <= 3 /\ TotalMs(j.delays) <= 3000

\* six calls and 6000 ms of waiting: the primary prompt refused on its third
\* attempt, the fallback prompt failing three times
C22_Witness ==
  /\ gen.kind = "throw"
  /\ Len(gen.job.calls) = 6
  /\ Len(gen.job.replies) = 6
  /\ Len(OfStage(gen.job.calls, "original")) = 3
  /\ TotalMs(OfStage(gen.job.delays, "original")) = 3000
  /\ TotalMs(gen.job.delays) = 6000


\* ------------------------------------------------------------------------
\* Every job and every batch ends (SpecLive)
\* ------------------------------------------------------------------------

\* invocation id is in flight for the scene
InFlight(id, scene) == id \in DOMAIN jobs /\ jobs[id].scene = scene

\* the invocation that was in flight for the scene has settled in this step,
\* and the scene's entry is Done or Failed after it
JobEndsWritten ==
  \A id \in JobIds, scene \in SceneSet :
     (InFlight(id, scene) /\ ~InFlight(id, scene)') =>
        /\ Has(generatedImages', scene)
        /\ generatedImages'[scene].status \in {"done", "error"}

\* a batch that leaves the set of running batches had an empty queue, and
\* the page shows the results
BatchEndsEmpty ==
  \A b \in DOMAIN batches :
     b \notin DOMAIN batches' =>
        /\ batches[b].queue = <<>>
        /\ appState' = "results-shown" /\ ~isLoading'

\* C23: when every generateContent call settles and every backoff timer
\* fires, no generateStyledImage invocation started by a batch or by
\* handleRegenerateScene stays in flight forever: each worker and each
\* regeneration is idle again and again, and at the end of an invocation the
\* entry of its scene is Done or Failed; every batch ends, with its queue
\* empty, and the page shows the results
C23_EveryJobEnds ==
  /\ \A id \in JobIds : []<>(id \notin DOMAIN jobs)
  /\ []<>(batches = <<>>)
  /\ [][JobEndsWritten /\ BatchEndsEmpty]_vars

\* a batch is running with a scene still in its queue, a worker waiting for
\* a backoff timer and a regeneration in flight
C23_Witness ==
  /\ appState = "generating"
  /\ \E b \in DOMAIN batches : batches[b].queue # <<>>
  /\ \E id \in DOMAIN jobs : id[1] # 0 /\ jobs[id].pc = "sleep"
  /\ \E id \in DOMAIN jobs : id[1] = 0

\* the two failures of processMultipartGeminiResponse
MalformedResponse == Thrown(<<"Invalid response format from AI model.">>)
NoContent == Thrown(<<"The AI model did not return an image or text.">>)

\* the parts of a response hold neither inline data nor text (a list of no
\* parts holds neither)
PartsHoldNothing(response) ==
  \A n \in 1..Len(response.parts) :
     /\ ~response.parts[n].inlineData.present
     /\ response.parts[n].text = NoString

\* C24: processMultipartGeminiResponse throws "Invalid response format from
\* AI model." exactly when the response has no list of content parts, and
\* throws "The AI model did not return an image or text." exactly when the
\* list is there, none of its parts holds inline data or text, and the
\* top-level text is empty; when the list is there, holds neither, and the
\* top-level text is not empty, it returns that text and no image
C24_MalformedAndNoContent ==
  gen.kind = "interpreted" =>
     /\ gen.result = MalformedResponse <=> ~gen.response.hasParts
     /\ gen.result = NoContent <=>
          /\ gen.response.hasParts
          /\ PartsHoldNothing(gen.response)
          /\ gen.response.text = NoString
     /\ gen.result.kind = "throw" => gen.result \in {MalformedResponse, NoContent}
     /\ (/\ gen.response.hasParts
         /\ PartsHoldNothing(gen.response)
         /\ gen.response.text # NoString) =>
           gen.result = Returned([imageUrl |-> NoString, text |-> gen.response.text])

\* a response whose only part is an empty text, with a top-level text, has
\* been interpreted
C24_Witness ==
  /\ gen.kind = "interpreted"
  /\ gen.response.hasParts
  /\ gen.response.parts = <<TxtPart(NoString)>>
  /\ gen.response.text = <<"I can't help with that">>
  /\ gen.result.kind = "return"

\* ------------------------------------------------------------------------
\* remixImage alone: calls and retries (SpecService)
\* ------------------------------------------------------------------------

\* the generateContent calls a remixImage invocation has made: the ones that
\* were answered, and the pending one
RemixCalls == Len(gen.replies) + (IF gen.step.kind = "await" THEN 1 ELSE 0)

\* the calls of the invocation that were rejected
RejectedCalls == {k \in 1..Len(gen.replies) : ~gen.replies[k].ok}

\* C25 as stated, which the code does not satisfy: every remixImage
\* invocation makes exactly one generateContent call, and ends as a failure
\* when that call is rejected
C25_Original ==
  gen.kind = "remix" =>
     /\ RemixCalls = 1
     /\ \A k \in RejectedCalls : gen.step = RemixFailed(gen.replies[k].message)

\* C25: a remixImage invocation makes at most one generateContent call: none
\* when its image is no data:image/<subtype>;base64,<payload> string (it
\* fails with the format error), one otherwise.  When the call is rejected,
\* with an internal error as with any other, the invocation fails with the
\* rejection as its detail: no second call, no backoff wait
C25_OneCallNoRetry ==
  gen.kind = "remix" =>
     /\ RemixCalls <= 1
     /\ RemixCalls = 0 <=> gen.step = Thrown(RemixFormatError)
     /\ gen.step.kind \in {"await", "return", "throw"}
     /\ \A k \in RejectedCalls : gen.step = RemixFailed(gen.replies[k].message)

\* the call of a remixImage invocation was rejected with an internal error,
\* and the invocation has failed
C25_Witness ==
  /\ gen.kind = "remix"
  /\ gen.replies = <<[ok |-> FALSE, message |-> ErrInternal]>>
  /\ gen.step.kind = "throw"

\* ------------------------------------------------------------------------
\* the map after handleReset and handleImageUpload (Spec)
\* ------------------------------------------------------------------------

\* handleGenerateClick runs in this step: a batch begins, or the photo is
\* refused and every scene fails at once
GenerateClicked ==
  /\ appState = "image-uploaded"
  /\ appState' \in {"generating", "results-shown"}

\* C26 as stated, which the code does not satisfy: the map that
\* handleReset or handleImageUpload has emptied stays empty until
\* handleGenerateClick runs, so no invocation that was in flight at the
\* clearing writes into it
C26_Original ==
  [][(generatedImages = <<>> /\ generatedImages' # <<>>) => GenerateClicked]_vars

\* ------------------------------------------------------------------------
\* remix replies that outlive their session (SpecRemix)
\* ------------------------------------------------------------------------

\* the remix call of turn i settles in this step, after the session that
\* sent it was closed: the history on screen is no longer the one the turn
\* left behind
StaleReply(i) == Settles(i) /\ chatHistory # turns[i].newHistory

\* C27 as stated, which the code does not satisfy: a remix reply that
\* arrives after its session was closed, while the modal is open again,
\* changes neither the current image nor the history of the open session
C27_Original ==
  [][\A i \in DOMAIN turns :
        (StaleReply(i) /\ remixModalState.isOpen) =>
           /\ currentImage' = currentImage
           /\ chatHistory' = chatHistory]_vars

\* ------------------------------------------------------------------------
\* handleSend while a turn is generating (SpecSend)
\* ------------------------------------------------------------------------

\* the remix calls that have not settled
PendingTurns == {i \in DOMAIN turns : turns[i].reply = NoReply}

\* C28: at most one remix call is pending at any time, and one is pending
\* exactly while isGenerating; handleSend called while isGenerating makes no
\* call and leaves the history, the current image and isGenerating as they
\* are; when the call of a turn settles, with a response or with an error,
\* and when a turn ends without a call, isGenerating is false
C28_OneCallInFlight ==
  [][/\ Cardinality(PendingTurns') <= 1
     /\ isGenerating' <=> PendingTurns' # {}
     /\ (Sends /\ isGenerating) =>
          UNCHANGED <<turns, chatHistory, currentImage, isGenerating>>
     /\ \A i \in DOMAIN turns : Settles(i) => ~isGenerating'
     /\ (Sends /\ turns' = turns /\ chatHistory' # chatHistory) => ~isGenerating']_vars

\* handleSend has been called twice and has made one call, which is pending
C28_Witness ==
  /\ sends = 2
  /\ Len(turns) = 1
  /\ PendingTurns = {1}
  /\ isGenerating
  /\ remixModalState.isOpen
  /\ chatHistory = turns[1].newHistory

\* ------------------------------------------------------------------------
\* the shape of the history (SpecRemix)
\* ------------------------------------------------------------------------

\* the history is User, Bot, User, Bot, ...
Alternates ==
  \A n \in 1..Len(chatHistory) :
     chatHistory[n].type = IF n % 2 = 1 THEN "user" ELSE "bot"

\* no Bot turn is empty
BotsHaveContent ==
  \A n \in 1..Len(chatHistory) :
     chatHistory[n].type = "bot" =>
        chatHistory[n].text # NoString \/ chatHistory[n].imageUrl # NoString

\* C29 as stated, which the code does not satisfy: while the modal is open
\* its history alternates User, Bot, ... from a User turn, no Bot turn is
\* empty, its length is even while no remix call is pending, and while one is
\* pending it ends with the one unanswered User turn
C29_Original ==
  remixModalState.isOpen =>
     /\ Alternates
     /\ BotsHaveContent
     /\ IF PendingTurns = {}
          THEN Len(chatHistory) % 2 = 0
          ELSE /\ Len(chatHistory) % 2 = 1
               /\ chatHistory[Len(chatHistory)].type = "user"

====
